---- MODULE Spec2Model ----
(***************************************************************************)
(* DiffusionKernel of DiffusionKernelTutorial.ipynb: the constructor, the  *)
(* forward evaluation and the lengthscale that the optimizer updates.      *)
(*                                                                         *)
(* Spec is the kernel in the hands of a caller and an optimizer; SpecCopy2 *)
(* is the same with forward as the second copy of the notebook writes it;  *)
(* SpecWide evaluates the kernel on points whose entries are not bounded   *)
(* by cats; TrainSpec is the training cell: model creation and the loop of *)
(* train.                                                                  *)
(*                                                                         *)
(* Tensors are records [err, shape, at]: shape is the sequence of axis     *)
(* sizes and at maps every 0-based index tuple to the entry.  A raised     *)
(* exception is a record whose err names the exception class.              *)
(*                                                                         *)
(* Real numbers are exact rationals <<numerator, denominator>> in lowest   *)
(* terms.  A lengthscale entry is held as the integer k that stands for    *)
(* the real number k * ln 2 (gpytorch's initial lengthscale, softplus(0),  *)
(* is ln 2, i.e. k = 1), so that exp(-lengthscale * c) is exactly          *)
(* 2^-(k*c).  Floating-point rounding is not modelled.                     *)
(***************************************************************************)
EXTENDS Integers, Sequences, FiniteSets, TLC

VARIABLES
    pc,                 \* "start", "ready", "returned" or "raised"
    categories,         \* the argument of DiffusionKernel(...), Unset before the call
    cats,               \* self.cats: a sequence of category counts, or Unset
    lengthscale,        \* self.lengthscale: a tensor of shape <<1, L>>, or NoTensor
    base_init,          \* TRUE once super().__init__ has run
    init_err,           \* the exception __init__ raised, "" when none
    x1, x2,             \* the arguments of the forward call in progress
    diag,
    last_dim_is_batch,
    res,                \* what that call returned or raised
    caller_x1,          \* the caller's tensors behind x1 and x2, as the call
    caller_x2,          \*   has left them
    factors,            \* how many times that call executed res *= ...
    smoke_test,         \* 'CI' in os.environ
    training_iter,
    tpc,                \* where the training cell stands, "idle" outside it
    it,                 \* iterations of the loop of train completed
    steps               \* optimizer.step() calls made so far

\* the kernel object and the forward call
kvars == <<pc, categories, cats, lengthscale, base_init, init_err, x1, x2, diag,
           last_dim_is_batch, res, caller_x1, caller_x2, factors>>

\* the training cell
tvars == <<smoke_test, training_iter, tpc, it, steps>>

vars == <<kvars, tvars>>

(***************************************************************************)
(* Bounds of the model.                                                    *)
(***************************************************************************)
MaxN == 2        \* points per batch
MaxD == 2        \* trailing (feature) dimension of an input, len(cats)
MaxB == 2        \* size of a leading batch axis
MaxK == 2        \* a lengthscale entry is k * ln 2 with k in 1..MaxK
MaxElems == 4    \* entries of an input of shape [n, d]
MaxBatchElems == 2   \* entries of an input of shape [b, n, d]
MaxVal == 2      \* the largest entry of a point given without regard to cats
MaxWideElems == 2    \* entries of an input holding such points

CatCounts == {2, 3}
Vals == {0, 1}

\* no sequence of category counts: categories=None, and self.cats before it
\* is assigned
None == <<-1>>
Unset == <<-2>>

\* ard_num_dims=None
NoArd == 0

(***************************************************************************)
(* Exact rational arithmetic.                                              *)
(***************************************************************************)
RECURSIVE GCD(_, _)
GCD(a, b) == IF b = 0 THEN a ELSE GCD(b, a % b)

Norm(n, d) == LET g == GCD(IF n < 0 THEN -n ELSE n, d) IN <<n \div g, d \div g>>

One == <<1, 1>>

RInt(n) == <<n, 1>>
RAdd(p, q) == Norm(p[1] * q[2] + q[1] * p[2], p[2] * q[2])
RSub(p, q) == Norm(p[1] * q[2] - q[1] * p[2], p[2] * q[2])
RMul(p, q) == Norm(p[1] * q[1], p[2] * q[2])
RDiv(p, q) == Norm(p[1] * q[2], p[2] * q[1])

\* p < q for rationals with positive denominators, by continued fractions
\* (no cross products, which would leave the integer range)
RECURSIVE RLess(_, _)
RLess(p, q) ==
    LET ip == p[1] \div p[2]
        iq == q[1] \div q[2]
        rp == p[1] % p[2]
        rq == q[1] % q[2]
    IN  IF ip # iq THEN ip < iq
        ELSE IF rq = 0 THEN FALSE
        ELSE IF rp = 0 THEN TRUE
        ELSE RLess(<<q[2], rq>>, <<p[2], rp>>)

RECURSIVE Pow2(_)
Pow2(m) == IF m = 0 THEN 1 ELSE 2 * Pow2(m - 1)

(***************************************************************************)
(* Tensors.                                                                *)
(***************************************************************************)
RECURSIVE Indices(_)
Indices(s) ==
    IF s = <<>> THEN {<<>>}
    ELSE {<<h>> \o t : h \in 0..(Head(s) - 1), t \in Indices(Tail(s))}

Tensor(s, f(_)) == [err |-> "", shape |-> s, at |-> [ix \in Indices(s) |-> f(ix)]]

Raise(e) == [err |-> e, shape |-> <<>>, at |-> <<>>]

Rank(T) == Len(T.shape)

Front(s) == SubSeq(s, 1, Len(s) - 1)

\* T[..., i]
SelectLast(T, i) ==
    IF T.err # "" THEN T
    ELSE IF Rank(T) = 0 \/ i >= T.shape[Rank(T)] THEN Raise("IndexError")
    ELSE Tensor(Front(T.shape), LAMBDA ix : T.at[Append(ix, i)])

\* T.unsqueeze(dim) for a negative dim; T[..., None] is T.unsqueeze(-1)
Unsqueeze(T, dim) ==
    IF T.err # "" THEN T
    ELSE IF dim < -(Rank(T) + 1) THEN Raise("IndexError")
    ELSE LET p == Rank(T) + 2 + dim
         IN  Tensor(SubSeq(T.shape, 1, p - 1) \o <<1>> \o SubSeq(T.shape, p, Rank(T)),
                    LAMBDA ix : T.at[SubSeq(ix, 1, p - 1) \o SubSeq(ix, p + 1, Len(ix))])

\* T.transpose(-1, -2)
Transpose(T) ==
    IF T.err # "" THEN T
    ELSE IF Rank(T) < 2 THEN Raise("IndexError")
    ELSE LET r == Rank(T)
             swap(s) == SubSeq(s, 1, r - 2) \o <<s[r], s[r - 1]>>
         IN  Tensor(swap(T.shape), LAMBDA ix : T.at[swap(ix)])

\* T[0, ...]
Index0(T) ==
    IF T.err # "" THEN T
    ELSE IF Rank(T) = 0 \/ T.shape[1] = 0 THEN Raise("IndexError")
    ELSE Tensor(Tail(T.shape), LAMBDA ix : T.at[<<0>> \o ix])

\* T[:, 0, ...]
SliceAll0(T) ==
    IF T.err # "" THEN T
    ELSE IF Rank(T) < 2 \/ T.shape[2] = 0 THEN Raise("IndexError")
    ELSE Tensor(<<T.shape[1]>> \o SubSeq(T.shape, 3, Rank(T)),
                LAMBDA ix : T.at[<<ix[1], 0>> \o Tail(ix)])

\* the axis sizes of s, right-aligned to rank r (missing leading axes are 1)
Pad(s, r) == [q \in 1..r |-> IF q <= r - Len(s) THEN 1 ELSE s[q - (r - Len(s))]]

MaxOf(a, b) == IF a >= b THEN a ELSE b

Broadcastable(s, t) ==
    LET r == MaxOf(Len(s), Len(t))
    IN  \A q \in 1..r : Pad(s, r)[q] = Pad(t, r)[q] \/ Pad(s, r)[q] = 1 \/ Pad(t, r)[q] = 1

BroadcastShape(s, t) ==
    LET r == MaxOf(Len(s), Len(t))
    IN  [q \in 1..r |-> MaxOf(Pad(s, r)[q], Pad(t, r)[q])]

\* the index into a tensor of shape s that the broadcast index ix reads
Project(ix, s) ==
    [q \in 1..Len(s) |-> IF s[q] = 1 THEN 0 ELSE ix[q + (Len(ix) - Len(s))]]

\* an elementwise binary operation with broadcasting; A is evaluated first
Elementwise(A, B, op(_, _)) ==
    IF A.err # "" THEN A
    ELSE IF B.err # "" THEN B
    ELSE IF ~Broadcastable(A.shape, B.shape) THEN Raise("RuntimeError")
    ELSE Tensor(BroadcastShape(A.shape, B.shape),
                LAMBDA ix : op(A.at[Project(ix, A.shape)], B.at[Project(ix, B.shape)]))

Map(T, f(_)) == IF T.err # "" THEN T ELSE Tensor(T.shape, LAMBDA ix : f(T.at[ix]))

(***************************************************************************)
(* DiffusionKernel.forward.                                                *)
(***************************************************************************)
Scalar(v) == Tensor(<<>>, LAMBDA ix : v)

\* self.cats[i] for a Python sequence of integers
CatsAt(c, i) == IF i >= Len(c) THEN Raise("IndexError") ELSE Scalar(c[i + 1])

\* torch.exp of m * ln 2
TorchExp(m) == IF m <= 0 THEN <<1, Pow2(-m)>> ELSE <<Pow2(m), 1>>

\* the minus sign lost: torch.exp(self.lengthscale[..., i] * self.cats[i])
ExpTerm_NoMinus(ls, c, i) ==
    Map(Elementwise(SelectLast(ls, i), CatsAt(c, i), LAMBDA k, n : k * n), TorchExp)

\* a single lengthscale reused for every dimension
ExpTerm_Shared(ls, c, i) ==
    Map(Elementwise(Map(SelectLast(ls, IF ls.shape[Rank(ls)] = 1 THEN 0 ELSE i),
                        LAMBDA k : -k),
                    CatsAt(c, i),
                    LAMBDA k, n : k * n),
        TorchExp)

\* torch.exp(-self.lengthscale[..., i] * self.cats[i])
ExpTerm(ls, c, i) ==
    Map(Elementwise(Map(SelectLast(ls, i), LAMBDA k : -k), CatsAt(c, i),
                    LAMBDA k, n : k * n),
        TorchExp)

\* a sign slipped in the denominator: (1 - exp) / (1 - (c_i - 1) * exp)
Base_SignSlip(ls, c, i) ==
    LET num == Map(ExpTerm(ls, c, i), LAMBDA e : RSub(One, e))
        den == Map(Elementwise(Map(CatsAt(c, i), LAMBDA n : RInt(n - 1)),
                               ExpTerm(ls, c, i), RMul),
                   LAMBDA e : RSub(One, e))
    IN  Elementwise(num, den, RDiv)

\* (1 - exp(-l_i * c_i)) / (1 + (c_i - 1) * exp(-l_i * c_i))
Base(ls, c, i) ==
    LET num == Map(ExpTerm(ls, c, i), LAMBDA e : RSub(One, e))
        den == Map(Elementwise(Map(CatsAt(c, i), LAMBDA n : RInt(n - 1)),
                               ExpTerm(ls, c, i), RMul),
                   LAMBDA e : RAdd(One, e))
    IN  Elementwise(num, den, RDiv)

NotEqual(A, B) == Elementwise(A, B, LAMBDA a, b : a # b)

\* base * indicator in place of base ** indicator
Pow_Times(A, B) == Elementwise(A, B, LAMBDA a, b : IF b THEN a ELSE <<0, 1>>)

\* base ** indicator, the exponent a boolean tensor
Pow(A, B) == Elementwise(A, B, LAMBDA a, b : IF b THEN a ELSE One)

\* (x1[..., i] != x2[..., i])[:, 0, ...]
DiagIndicator(a, b, i) == SliceAll0(NotEqual(SelectLast(a, i), SelectLast(b, i)))

\* the new axis put on x2 in place of x1:
\* (x1[..., i].unsqueeze(-2) != x2[..., i].unsqueeze(-2)[..., None])[0, ...]
FullIndicator_Transposed(a, b, i) ==
    Index0(NotEqual(Unsqueeze(SelectLast(a, i), -2),
                    Unsqueeze(Unsqueeze(SelectLast(b, i), -2), -1)))

\* x2 always read on dimension 0:
\* (x1[..., i].unsqueeze(-2)[..., None] != x2[..., 0].unsqueeze(-2))[0, ...]
FullIndicator_FirstDim(a, b, i) ==
    Index0(NotEqual(Unsqueeze(Unsqueeze(SelectLast(a, i), -2), -1),
                    Unsqueeze(SelectLast(b, 0), -2)))

\* (x1[..., i].unsqueeze(-2)[..., None] != x2[..., i].unsqueeze(-2))[0, ...]
FullIndicator(a, b, i) ==
    Index0(NotEqual(Unsqueeze(Unsqueeze(SelectLast(a, i), -2), -1),
                    Unsqueeze(SelectLast(b, i), -2)))

\* the right-hand side of res *= ... for dimension i
Factor(ls, c, a, b, dg, i) ==
    Pow(Unsqueeze(Base(ls, c, i), -1),
        IF dg THEN DiagIndicator(a, b, i) ELSE FullIndicator(a, b, i))

\* res *= f: res is the Python float 1. before the first factor, and the
\* tensor multiplied in place afterwards
Imul(r, f) ==
    IF f.err # "" THEN f
    ELSE IF r.shape # <<>> /\ (~Broadcastable(r.shape, f.shape)
                               \/ BroadcastShape(r.shape, f.shape) # r.shape)
    THEN Raise("RuntimeError")
    ELSE Elementwise(r, f, RMul)

\* for i in range(d): res *= ...
RECURSIVE Loop(_, _, _, _, _, _, _, _)
Loop(ls, c, a, b, dg, d, i, r) ==
    IF i >= d THEN r
    ELSE LET n == Imul(r, Factor(ls, c, a, b, dg, i))
         IN  IF n.err # "" THEN n ELSE Loop(ls, c, a, b, dg, d, i + 1, n)

\* the number of res *= ... statements the loop completes
RECURSIVE LoopFactors(_, _, _, _, _, _, _, _)
LoopFactors(ls, c, a, b, dg, d, i, r) ==
    IF i >= d THEN 0
    ELSE LET n == Imul(r, Factor(ls, c, a, b, dg, i))
         IN  IF n.err # "" THEN 0 ELSE 1 + LoopFactors(ls, c, a, b, dg, d, i + 1, n)

\* x.transpose(-1, -2).unsqueeze(-1) when last_dim_is_batch
Reshape(x, ldb) == IF ldb THEN Unsqueeze(Transpose(x), -1) ELSE x

\* range(x1.shape[-1])
LoopCount(a) == a.shape[Rank(a)]

Forward(ls, c, a, b, dg, ldb) ==
    LET ra == Reshape(a, ldb)
        rb == Reshape(b, ldb)
    IN  IF ra.err # "" THEN ra
        ELSE IF rb.err # "" THEN rb
        ELSE Loop(ls, c, ra, rb, dg, LoopCount(ra), 0, Scalar(One))

\* the factors forward multiplies into res before it returns or raises
ForwardFactors(ls, c, a, b, dg, ldb) ==
    LET ra == Reshape(a, ldb)
        rb == Reshape(b, ldb)
    IN  IF ra.err # "" \/ rb.err # "" THEN 0
        ELSE LoopFactors(ls, c, ra, rb, dg, LoopCount(ra), 0, Scalar(One))

\* range(x1.shape[~1]) of the second copy of the class: ~1 is -2
LoopCountCopy2(a) == a.shape[Rank(a) - 1]

\* forward of the second copy of the class
ForwardCopy2(ls, c, a, b, dg, ldb) ==
    LET ra == Reshape(a, ldb)
        rb == Reshape(b, ldb)
    IN  IF ra.err # "" THEN ra
        ELSE IF rb.err # "" THEN rb
        ELSE Loop(ls, c, ra, rb, dg, LoopCountCopy2(ra), 0, Scalar(One))

ForwardFactorsCopy2(ls, c, a, b, dg, ldb) ==
    LET ra == Reshape(a, ldb)
        rb == Reshape(b, ldb)
    IN  IF ra.err # "" \/ rb.err # "" THEN 0
        ELSE LoopFactors(ls, c, ra, rb, dg, LoopCountCopy2(ra), 0, Scalar(One))

\* the reshaping done in place on the argument: x.transpose_(-1, -2).unsqueeze_(-1)
ArgAfter_InPlace(x, ldb) == Reshape(x, ldb)

\* the caller's tensor after the call: x1 = x1.transpose(-1, -2).unsqueeze(-1)
\* rebinds the local name to a new view, every other use of x1 and x2 reads
\* them, and res *= writes to the tensor that 1. * factor created
ArgAfter(x, ldb) == x

(***************************************************************************)
(* The inputs a caller may pass.                                           *)
(***************************************************************************)
RECURSIVE Product(_)
Product(s) == IF s = <<>> THEN 1 ELSE Head(s) * Product(Tail(s))

\* [n, d] and [b, n, d]
Shapes ==
    {s \in {<<n, d>> : n \in 1..MaxN, d \in 1..MaxD}
           \cup {<<b, n, d>> : b \in 1..MaxB, n \in 1..MaxN, d \in 1..MaxD} :
        Product(s) <= (IF Len(s) = 2 THEN MaxElems ELSE MaxBatchElems)}

TensorsOf(s) == {[err |-> "", shape |-> s, at |-> f] : f \in [Indices(s) -> Vals]}

\* x1 and x2 share their leading batch shape
SameBatch(s, t) == Len(s) = Len(t) /\ (Len(s) = 3 => s[1] = t[1])

CategoriesArgs == {None} \cup UNION {[1..n -> CatCounts] : n \in 0..MaxD}

ArdNumDims == {NoArd} \cup (1..MaxD)

\* gpytorch.kernels.Kernel.__init__ with has_lengthscale: a [1, L] parameter,
\* L = 1 without ard_num_dims, every entry softplus(0) = ln 2
InitialLengthscale(ard) ==
    Tensor(<<1, IF ard = NoArd THEN 1 ELSE ard>>, LAMBDA ix : 1)

Lengthscales(s) == {[err |-> "", shape |-> s, at |-> f] : f \in [Indices(s) -> 1..MaxK]}

\* no tensor: the lengthscale before the base kernel creates it, and the
\* arguments and result when no call is in progress
NoTensor == [err |-> "none", shape |-> <<>>, at |-> <<>>]

(***************************************************************************)
(* The state machine.                                                      *)
(***************************************************************************)
Init ==
    /\ pc = "start"
    /\ categories = Unset
    /\ cats = Unset
    /\ lengthscale = NoTensor
    /\ base_init = FALSE
    /\ init_err = ""
    /\ x1 = NoTensor
    /\ x2 = NoTensor
    /\ diag = FALSE
    /\ last_dim_is_batch = FALSE
    /\ res = NoTensor
    /\ caller_x1 = NoTensor
    /\ caller_x2 = NoTensor
    /\ factors = 0
    /\ smoke_test = FALSE
    /\ training_iter = 0
    /\ tpc = "idle"
    /\ it = 0
    /\ steps = 0

\* the check made last, after super().__init__ and the assignment of cats
Construct_CheckLast(c, ard) ==
    /\ pc = "start"
    /\ categories' = c
    /\ base_init' = TRUE
    /\ lengthscale' = InitialLengthscale(ard)
    /\ cats' = c
    /\ IF c = None
       THEN init_err' = "NameError" /\ pc' = "raised"
       ELSE init_err' = init_err /\ pc' = "ready"
    /\ UNCHANGED <<x1, x2, diag, last_dim_is_batch, res, caller_x1, caller_x2, factors>>

\* only the first count kept: self.cats = categories[:1]
Construct_FirstOnly(c, ard) ==
    /\ pc = "start"
    /\ categories' = c
    /\ IF c = None
       THEN /\ init_err' = "NameError"
            /\ pc' = "raised"
            /\ UNCHANGED <<base_init, lengthscale, cats>>
       ELSE /\ base_init' = TRUE
            /\ lengthscale' = InitialLengthscale(ard)
            /\ cats' = (IF c = <<>> THEN c ELSE <<c[1]>>)
            /\ pc' = "ready"
            /\ UNCHANGED init_err
    /\ UNCHANGED <<x1, x2, diag, last_dim_is_batch, res, caller_x1, caller_x2, factors>>

\* DiffusionKernel(categories, ard_num_dims=ard): RunTimeError is no name of
\* Python, so the raise statement itself raises NameError
Construct(c, ard) ==
    /\ pc = "start"
    /\ categories' = c
    /\ IF c = None
       THEN /\ init_err' = "NameError"
            /\ pc' = "raised"
            /\ UNCHANGED <<base_init, lengthscale, cats>>
       ELSE /\ base_init' = TRUE
            /\ lengthscale' = InitialLengthscale(ard)
            /\ cats' = c
            /\ pc' = "ready"
            /\ UNCHANGED init_err
    /\ UNCHANGED <<x1, x2, diag, last_dim_is_batch, res, caller_x1, caller_x2, factors>>

\* the entries checked against cats first: ValueError when one is outside
\* 0..cats[i]-1
Evaluate_Checked(a, b, dg, ldb) ==
    /\ pc = "ready"
    /\ x1' = a
    /\ x2' = b
    /\ diag' = dg
    /\ last_dim_is_batch' = ldb
    /\ res' = (IF \E x \in {a, b} : \E ix \in DOMAIN x.at :
                     ix[Len(ix)] < Len(cats) /\ x.at[ix] >= cats[ix[Len(ix)] + 1]
               THEN Raise("ValueError")
               ELSE Forward(lengthscale, cats, a, b, dg, ldb))
    /\ factors' = ForwardFactors(lengthscale, cats, a, b, dg, ldb)
    /\ caller_x1' = ArgAfter(a, ldb)
    /\ caller_x2' = ArgAfter(b, ldb)
    /\ pc' = "returned"
    /\ UNCHANGED <<categories, cats, lengthscale, base_init, init_err>>

\* kernel.forward(a, b, diag=dg, last_dim_is_batch=ldb)
Evaluate(a, b, dg, ldb) ==
    /\ pc = "ready"
    /\ x1' = a
    /\ x2' = b
    /\ diag' = dg
    /\ last_dim_is_batch' = ldb
    /\ res' = Forward(lengthscale, cats, a, b, dg, ldb)
    /\ factors' = ForwardFactors(lengthscale, cats, a, b, dg, ldb)
    /\ caller_x1' = ArgAfter(a, ldb)
    /\ caller_x2' = ArgAfter(b, ldb)
    /\ pc' = "returned"
    /\ UNCHANGED <<categories, cats, lengthscale, base_init, init_err>>

\* kernel.forward(a, b, diag=dg, last_dim_is_batch=ldb) of the second copy
EvaluateCopy2(a, b, dg, ldb) ==
    /\ pc = "ready"
    /\ x1' = a
    /\ x2' = b
    /\ diag' = dg
    /\ last_dim_is_batch' = ldb
    /\ res' = ForwardCopy2(lengthscale, cats, a, b, dg, ldb)
    /\ factors' = ForwardFactorsCopy2(lengthscale, cats, a, b, dg, ldb)
    /\ caller_x1' = ArgAfter(a, ldb)
    /\ caller_x2' = ArgAfter(b, ldb)
    /\ pc' = "returned"
    /\ UNCHANGED <<categories, cats, lengthscale, base_init, init_err>>

\* the caller has taken the result or the exception
Return ==
    /\ pc = "returned"
    /\ pc' = "ready"
    /\ x1' = NoTensor
    /\ x2' = NoTensor
    /\ diag' = FALSE
    /\ last_dim_is_batch' = FALSE
    /\ res' = NoTensor
    /\ caller_x1' = NoTensor
    /\ caller_x2' = NoTensor
    /\ factors' = 0
    /\ UNCHANGED <<categories, cats, lengthscale, base_init, init_err>>

\* optimizer.step(): the optimizer writes new positive lengthscale entries
OptimizerStep(ls) ==
    /\ pc = "ready"
    /\ ls # lengthscale
    /\ lengthscale' = ls
    /\ UNCHANGED <<pc, categories, cats, base_init, init_err, x1, x2, diag,
                   last_dim_is_batch, res, caller_x1, caller_x2, factors>>

\* a kernel that its user constructs, evaluates and hands to an optimizer
Next ==
    \/ /\ pc = "start"
       /\ \E c \in CategoriesArgs, ard \in ArdNumDims : Construct(c, ard)
       /\ UNCHANGED tvars
    \/ /\ \E s \in Shapes, t \in Shapes :
             /\ pc = "ready"
             /\ SameBatch(s, t)
             /\ \E a \in TensorsOf(s), b \in TensorsOf(t), dg \in BOOLEAN, ldb \in BOOLEAN :
                   Evaluate(a, b, dg, ldb)
       /\ UNCHANGED tvars
    \/ Return /\ UNCHANGED tvars
    \/ /\ pc = "ready"
       /\ \E ls \in Lengthscales(lengthscale.shape) : OptimizerStep(ls)
       /\ UNCHANGED tvars

Spec == Init /\ [][Next]_vars

\* the same, with the class of the second copy of the notebook
NextCopy2 ==
    \/ /\ pc = "start"
       /\ \E c \in CategoriesArgs, ard \in ArdNumDims : Construct(c, ard)
       /\ UNCHANGED tvars
    \/ /\ \E s \in Shapes, t \in Shapes :
             /\ pc = "ready"
             /\ SameBatch(s, t)
             /\ \E a \in TensorsOf(s), b \in TensorsOf(t), dg \in BOOLEAN, ldb \in BOOLEAN :
                   EvaluateCopy2(a, b, dg, ldb)
       /\ UNCHANGED tvars
    \/ Return /\ UNCHANGED tvars
    \/ /\ pc = "ready"
       /\ \E ls \in Lengthscales(lengthscale.shape) : OptimizerStep(ls)
       /\ UNCHANGED tvars

SpecCopy2 == Init /\ [][NextCopy2]_vars

\* points whose entries are any numbers, as train_x = [[1, 2], [2, 2]] given
\* to a kernel of categories [[2], [2]]
WideVals == 0..MaxVal

WideShapes == {s \in {<<n, d>> : n \in 1..MaxN, d \in 1..MaxD} : Product(s) <= MaxWideElems}

WideTensorsOf(s) == {[err |-> "", shape |-> s, at |-> f] : f \in [Indices(s) -> WideVals]}

\* the kernel evaluated in full on such points
NextWide ==
    \/ /\ pc = "start"
       /\ \E c \in CategoriesArgs, ard \in ArdNumDims : Construct(c, ard)
       /\ UNCHANGED tvars
    \/ /\ \E s \in WideShapes, t \in WideShapes :
             /\ pc = "ready"
             /\ \E a \in WideTensorsOf(s), b \in WideTensorsOf(t) :
                   Evaluate(a, b, FALSE, FALSE)
       /\ UNCHANGED tvars
    \/ Return /\ UNCHANGED tvars
    \/ /\ pc = "ready"
       /\ \E ls \in Lengthscales(lengthscale.shape) : OptimizerStep(ls)
       /\ UNCHANGED tvars

SpecWide == Init /\ [][NextWide]_vars

(***************************************************************************)
(* The training cell: a model is created, train runs its loop over it, and *)
(* the cell goes on to the prediction.  tpc is "model" before the model is *)
(* created, "train" before the call of train, then the statement of the    *)
(* loop that runs next, "trained" when train has returned, "predict" when  *)
(* the cell has gone on to the prediction, and "failed" when an exception  *)
(* has left the cell.                                                      *)
(***************************************************************************)
\* training_iter = 2 if smoke_test else 50
TrainingIter(smoke) == IF smoke THEN 2 ELSE 50

\* train_x = torch.tensor(np.array([[1, 0], [0, 1]]))
train_x == Tensor(<<2, 2>>, LAMBDA ix : IF ix[1] = ix[2] THEN 1 ELSE 0)

TrainInit ==
    /\ pc = "start"
    /\ categories = Unset
    /\ cats = Unset
    /\ lengthscale = NoTensor
    /\ base_init = FALSE
    /\ init_err = ""
    /\ x1 = NoTensor
    /\ x2 = NoTensor
    /\ diag = FALSE
    /\ last_dim_is_batch = FALSE
    /\ res = NoTensor
    /\ caller_x1 = NoTensor
    /\ caller_x2 = NoTensor
    /\ factors = 0
    /\ smoke_test \in BOOLEAN
    /\ training_iter = TrainingIter(smoke_test)
    /\ tpc = "model"
    /\ it = 0
    /\ steps = 0

\* model = DiffGPModel(train_x, train_y, likelihood), whose covar_module is a
\* DiffusionKernel(categories=c, ard_num_dims=ard)
CreateModel(c, ard) ==
    /\ tpc = "model"
    /\ Construct(c, ard)
    /\ tpc' = (IF c = None THEN "failed" ELSE "train")
    /\ UNCHANGED <<smoke_test, training_iter, it, steps>>

\* train(model, likelihood): the optimizer and mll are created and the loop
\* is entered
TrainCall ==
    /\ tpc = "train"
    /\ it' = 0
    /\ tpc' = (IF 0 < training_iter THEN "zero_grad" ELSE "trained")
    /\ UNCHANGED <<kvars, smoke_test, training_iter, steps>>

\* optimizer.zero_grad()
ZeroGrad ==
    /\ tpc = "zero_grad"
    /\ tpc' = "forward"
    /\ UNCHANGED <<kvars, smoke_test, training_iter, it, steps>>

\* output = model(train_x): the covariance is built unevaluated
ModelForward ==
    /\ tpc = "forward"
    /\ tpc' = "loss"
    /\ UNCHANGED <<kvars, smoke_test, training_iter, it, steps>>

\* the exception caught and the loop continued
Loss_Swallows ==
    /\ tpc = "loss"
    /\ Evaluate(train_x, train_x, FALSE, FALSE)
    /\ tpc' = "backward"
    /\ UNCHANGED <<smoke_test, training_iter, it, steps>>

\* loss = -mll(output, train_y): the kernel's forward runs here, on the
\* training inputs against themselves, and its exception leaves train
Loss ==
    /\ tpc = "loss"
    /\ Evaluate(train_x, train_x, FALSE, FALSE)
    /\ tpc' = (IF res'.err = "" THEN "backward" ELSE "failed")
    /\ UNCHANGED <<smoke_test, training_iter, it, steps>>

\* loss.backward()
Backward ==
    /\ tpc = "backward"
    /\ Return
    /\ tpc' = "step"
    /\ UNCHANGED <<smoke_test, training_iter, it, steps>>

\* the loop left one iteration early: range(training_iter - 1)
Step_OneShort(ls) ==
    /\ tpc = "step"
    /\ OptimizerStep(ls)
    /\ steps' = steps + 1
    /\ it' = it + 1
    /\ tpc' = (IF it + 1 < training_iter - 1 THEN "zero_grad" ELSE "trained")
    /\ UNCHANGED <<smoke_test, training_iter>>

\* optimizer.step(), and the loop goes to its next iteration or ends
Step(ls) ==
    /\ tpc = "step"
    /\ OptimizerStep(ls)
    /\ steps' = steps + 1
    /\ it' = it + 1
    /\ tpc' = (IF it + 1 < training_iter THEN "zero_grad" ELSE "trained")
    /\ UNCHANGED <<smoke_test, training_iter>>

\* train has returned: model.eval(); likelihood.eval(); predict(...)
TrainReturns ==
    /\ tpc = "trained"
    /\ tpc' = "predict"
    /\ UNCHANGED <<kvars, smoke_test, training_iter, it, steps>>

TrainNext ==
    \/ \E c \in CategoriesArgs, ard \in ArdNumDims : CreateModel(c, ard)
    \/ TrainCall
    \/ ZeroGrad
    \/ ModelForward
    \/ Loss
    \/ Backward
    \/ tpc = "step" /\ \E ls \in Lengthscales(lengthscale.shape) : Step(ls)
    \/ TrainReturns

TrainSpec == TrainInit /\ [][TrainNext]_vars

(***************************************************************************)
(* Vocabulary of the properties.                                           *)
(***************************************************************************)
Returned == pc = "returned"

NumPoints(x) == x.shape[Rank(x) - 1]

TrailingDim(x) == x.shape[Rank(x)]

\* the number of lengthscale entries
NumLengthscales == lengthscale.shape[2]

\* a call on [n1, d] and [n2, d] with d = len(cats) and one lengthscale per
\* dimension, without last_dim_is_batch
UnbatchedCall ==
    /\ Returned
    /\ Rank(x1) = 2
    /\ Rank(x2) = 2
    /\ ~last_dim_is_batch
    /\ TrailingDim(x1) = Len(cats)
    /\ TrailingDim(x2) = Len(cats)
    /\ NumLengthscales = Len(cats)

FullCall == UnbatchedCall /\ ~diag

\* base_i as the specification writes it, for lengthscale k * ln 2 and c categories
SpecBase(k, c) ==
    RDiv(RSub(One, <<1, Pow2(k * c)>>),
         RAdd(One, RMul(RInt(c - 1), <<1, Pow2(k * c)>>)))

\* the product over the dimensions i..d-1 of base_i where x1[j] and x2[k] differ
RECURSIVE SpecKernel(_, _, _)
SpecKernel(j, k, i) ==
    IF i >= Len(cats) THEN One
    ELSE RMul(IF x1.at[<<j, i>>] # x2.at[<<k, i>>]
              THEN SpecBase(lengthscale.at[<<0, i>>], cats[i + 1])
              ELSE One,
              SpecKernel(j, k, i + 1))

\* the dimensions on which x1[j] and x2[k] differ
Differing(j, k) == {i \in 0..(Len(cats) - 1) : x1.at[<<j, i>>] # x2.at[<<k, i>>]}

PointPairs == (0..(NumPoints(x1) - 1)) \X (0..(NumPoints(x2) - 1))

(***************************************************************************)
(* C1: for unbatched x1 of n1 points and x2 of n2 points over d =          *)
(* len(cats) dimensions, the full evaluation returns an n1-by-n2 matrix    *)
(* whose entry (j,k) is the product over the dimensions of base_i where    *)
(* x1[j][i] differs from x2[k][i] and of 1 where they agree; with cats =   *)
(* [2,2] and equal lengthscales a pair differing in one dimension gets     *)
(* base and a pair differing in both gets base squared.                    *)
(***************************************************************************)
C1_FullMatrix ==
    FullCall =>
        /\ res.err = ""
        /\ res.shape = <<NumPoints(x1), NumPoints(x2)>>
        /\ \A jk \in PointPairs : res.at[<<jk[1], jk[2]>>] = SpecKernel(jk[1], jk[2], 0)
        /\ (cats = <<2, 2>> /\ lengthscale.at[<<0, 0>>] = lengthscale.at[<<0, 1>>]) =>
              LET b == SpecBase(lengthscale.at[<<0, 0>>], 2)
              IN  \A jk \in PointPairs :
                     res.at[<<jk[1], jk[2]>>] =
                        CASE Cardinality(Differing(jk[1], jk[2])) = 0 -> One
                          [] Cardinality(Differing(jk[1], jk[2])) = 1 -> b
                          [] OTHER -> RMul(b, b)

\* a 2-by-2 matrix over cats = [2,2], lengthscale [ln 2, ln 2], holding
\* 1, base = 3/5 and base^2 = 9/25
C1_Witness ==
    /\ FullCall
    /\ cats = <<2, 2>>
    /\ lengthscale.at[<<0, 0>>] = 1
    /\ lengthscale.at[<<0, 1>>] = 1
    /\ res.err = ""
    /\ res.shape = <<2, 2>>
    /\ res.at[<<0, 0>>] = One
    /\ res.at[<<0, 1>>] = <<3, 5>>
    /\ res.at[<<1, 0>>] = <<9, 25>>

(***************************************************************************)
(* C2: the kernel of a point with itself is exactly 1: in a full           *)
(* evaluation every entry (j,k) with x1[j] = x2[k], so every entry (k,k)   *)
(* of evaluate(x, x), is 1, whatever the lengthscale.                      *)
(***************************************************************************)
C2_DiagonalIdentity ==
    FullCall =>
        /\ res.err = ""
        /\ \A jk \in PointPairs :
              Differing(jk[1], jk[2]) = {} => res.at[<<jk[1], jk[2]>>] = One
        /\ x1 = x2 => \A k \in 0..(NumPoints(x1) - 1) : res.at[<<k, k>>] = One

\* evaluate(x, x) on two distinct points under a lengthscale the optimizer has moved
C2_Witness ==
    /\ FullCall
    /\ x1 = x2
    /\ NumPoints(x1) = 2
    /\ Differing(0, 1) # {}
    /\ \E i \in 0..(Len(cats) - 1) : lengthscale.at[<<0, i>>] > 1
    /\ res.err = ""
    /\ res.at[<<0, 0>>] = One
    /\ res.at[<<1, 1>>] = One
    /\ res.at[<<0, 1>>] # One

(***************************************************************************)
(* C3: the kernel is exactly symmetric: entry (j,k) of evaluate(x1, x2)    *)
(* equals entry (k,j) of evaluate(x2, x1), in full mode on unbatched       *)
(* inputs.                                                                 *)
(***************************************************************************)
C3_Symmetry ==
    FullCall =>
        LET swapped == Forward(lengthscale, cats, x2, x1, FALSE, FALSE)
        IN  /\ res.err = ""
            /\ swapped.err = ""
            /\ swapped.shape = <<NumPoints(x2), NumPoints(x1)>>
            /\ \A jk \in PointPairs :
                  res.at[<<jk[1], jk[2]>>] = swapped.at[<<jk[2], jk[1]>>]

\* x1 and x2 of different sizes and an entry below 1 off the diagonal
C3_Witness ==
    /\ FullCall
    /\ NumPoints(x1) = 1
    /\ NumPoints(x2) = 2
    /\ Len(cats) = 2
    /\ res.err = ""
    /\ res.at[<<0, 0>>] = One
    /\ res.at[<<0, 1>>] # One

(***************************************************************************)
(* C4: for unbatched x1 and x2 with the same number of points n,           *)
(* evaluate(x1, x2, diag=True) returns n values, and value k equals entry  *)
(* (k,k) of evaluate(x1, x2, diag=False).                                  *)
(***************************************************************************)
C4_DiagEqualsFullDiagonal ==
    (UnbatchedCall /\ diag /\ NumPoints(x1) = NumPoints(x2)) =>
        LET full == Forward(lengthscale, cats, x1, x2, FALSE, FALSE)
        IN  /\ res.err = ""
            /\ res.shape = <<NumPoints(x1)>>
            /\ \A k \in 0..(NumPoints(x1) - 1) : res.at[<<k>>] = full.at[<<k, k>>]

(***************************************************************************)
(* C5: with every lengthscale strictly positive and every category count   *)
(* at least 2, each per-dimension base lies strictly between 0 and 1, and  *)
(* every kernel value evaluate returns satisfies 0 < K <= 1.               *)
(***************************************************************************)
Zero == <<0, 1>>

\* the dimensions that have both a lengthscale and a category count
KernelDims ==
    0..((IF NumLengthscales <= Len(cats) THEN NumLengthscales ELSE Len(cats)) - 1)

Lowered(i) == [lengthscale EXCEPT !.at[<<0, i>>] = @ - 1]

C6_IncreaseDecreases ==
    FullCall =>
        \A i \in 0..(Len(cats) - 1) :
           lengthscale.at[<<0, i>>] > 1 =>
              LET before == Forward(Lowered(i), cats, x1, x2, FALSE, FALSE)
              IN  /\ RLess(Base(lengthscale, cats, i).at[<<0>>],
                           Base(Lowered(i), cats, i).at[<<0>>])
                  /\ \A jk \in PointPairs :
                        /\ i \in Differing(jk[1], jk[2]) =>
                              RLess(res.at[<<jk[1], jk[2]>>], before.at[<<jk[1], jk[2]>>])
                        /\ Differing(jk[1], jk[2]) = {} =>
                              res.at[<<jk[1], jk[2]>>] = before.at[<<jk[1], jk[2]>>]

\* C6 as amended: increasing a single lengthscale l_i, the others fixed,
\* strictly increases base_i, hence strictly increases K(a,b) for every pair
\* of points differing on dimension i, and leaves K(a,a) unchanged.
C6_IncreaseIncreases ==
    FullCall =>
        \A i \in 0..(Len(cats) - 1) :
           lengthscale.at[<<0, i>>] > 1 =>
              LET before == Forward(Lowered(i), cats, x1, x2, FALSE, FALSE)
              IN  /\ res.err = ""
                  /\ before.err = ""
                  /\ RLess(Base(Lowered(i), cats, i).at[<<0>>],
                           Base(lengthscale, cats, i).at[<<0>>])
                  /\ \A jk \in PointPairs :
                        /\ i \in Differing(jk[1], jk[2]) =>
                              RLess(before.at[<<jk[1], jk[2]>>], res.at[<<jk[1], jk[2]>>])
                        /\ Differing(jk[1], jk[2]) = {} =>
                              res.at[<<jk[1], jk[2]>>] = before.at[<<jk[1], jk[2]>>]

\* the lengthscale of dimension 1 was raised, the other was not; one pair
\* differs on dimension 1 and another pair is a point with itself
C6_Witness ==
    /\ FullCall
    /\ Len(cats) = 2
    /\ lengthscale.at[<<0, 0>>] = 1
    /\ lengthscale.at[<<0, 1>>] = 2
    /\ res.err = ""
    /\ \E jk \in PointPairs : 1 \in Differing(jk[1], jk[2])
    /\ \E jk \in PointPairs : Differing(jk[1], jk[2]) = {}

C8_EmptyRaises ==
    /\ categories = <<>> => (pc = "raised" /\ init_err # "" /\ ~base_init)
    /\ cats # <<>>

(***************************************************************************)
(* C9: whenever the trailing dimension of x1 or x2 differs from len(cats), *)
(* larger or smaller, evaluate raises and returns no result.               *)
(***************************************************************************)
C9_DimMismatchRaises ==
    (/\ Returned
     /\ ~last_dim_is_batch
     /\ TrailingDim(x1) # Len(cats) \/ TrailingDim(x2) # Len(cats)) =>
        res.err # ""

(***************************************************************************)
(* C10: with diag=True and n1 different from n2, also when one of them is  *)
(* 1, evaluate raises and returns no result.                               *)
(***************************************************************************)
C10_DiagUnequalRaises ==
    (/\ Returned
     /\ diag
     /\ ~last_dim_is_batch
     /\ NumPoints(x1) # NumPoints(x2)) =>
        res.err # ""

C12_CatsFixed ==
    [][/\ pc' \in {"ready", "returned"} => cats' = categories'
       /\ pc \in {"ready", "returned"} =>
             /\ categories' = categories
             /\ cats' = cats
             /\ lengthscale' # lengthscale =>
                   /\ pc = "ready"
                   /\ pc' = "ready"
                   /\ UNCHANGED <<x1, x2, diag, last_dim_is_batch, res>>]_vars

\* an evaluation made after the optimizer has moved the lengthscale
C12_Witness ==
    /\ Returned
    /\ categories = <<2, 3>>
    /\ cats = <<2, 3>>
    /\ lengthscale # InitialLengthscale(2)
    /\ lengthscale.shape = <<1, 2>>
    /\ res.err = ""

(***************************************************************************)
(* C13: in both copies of forward and in both branches, the running        *)
(* product starts at 1 and receives exactly one factor per input dimension *)
(* i = 0..d-1, d the trailing size of x1 as the loop sees it; the number   *)
(* of factors does not depend on the number of points.                     *)
(***************************************************************************)
C13_OneFactorPerDimension ==
    (Returned /\ res.err = "") =>
        factors = TrailingDim(Reshape(x1, last_dim_is_batch))

(***************************************************************************)
(* C14: for x1 of shape [b, n1, d] and x2 of shape [b, n2, d] the full     *)
(* evaluation returns shape [b, n1, n2] and entry [c, j, k] is             *)
(* K(x1[c][j], x2[c][k]), whatever the points of the other batch indices.  *)
(***************************************************************************)
\* the product over the dimensions i..d-1 of base_i where x1[e][j] and
\* x2[e][k] differ
RECURSIVE BatchKernel(_, _, _, _)
BatchKernel(e, j, k, i) ==
    IF i >= Len(cats) THEN One
    ELSE RMul(IF x1.at[<<e, j, i>>] # x2.at[<<e, k, i>>]
              THEN SpecBase(lengthscale.at[<<0, i>>], cats[i + 1])
              ELSE One,
              BatchKernel(e, j, k, i + 1))

C14_BatchesIndependent ==
    (/\ Returned
     /\ ~diag
     /\ ~last_dim_is_batch
     /\ Rank(x1) = 3
     /\ Rank(x2) = 3
     /\ x1.shape[1] = x2.shape[1]
     /\ TrailingDim(x1) = Len(cats)
     /\ TrailingDim(x2) = Len(cats)
     /\ NumLengthscales = Len(cats)) =>
        /\ res.err = ""
        /\ res.shape = <<x1.shape[1], NumPoints(x1), NumPoints(x2)>>
        /\ \A e \in 0..(x1.shape[1] - 1) :
              \A jk \in PointPairs :
                 res.at[<<e, jk[1], jk[2]>>] = BatchKernel(e, jk[1], jk[2], 0)

(***************************************************************************)
(* C15: with last_dim_is_batch and x1 of shape [n1, d], x2 of shape        *)
(* [n2, d], the result holds one n1-by-n2 slice per feature f, and entry   *)
(* (j,k) of slice f is 1 when x1[j][f] equals x2[k][f] and below 1 when    *)
(* they differ: it is decided by feature f alone.                          *)
(***************************************************************************)
C15_FeaturesIndependent ==
    (/\ Returned
     /\ last_dim_is_batch
     /\ ~diag
     /\ Rank(x1) = 2
     /\ Rank(x2) = 2
     /\ TrailingDim(x1) = Len(cats)
     /\ TrailingDim(x2) = Len(cats)
     /\ NumLengthscales = Len(cats)) =>
        /\ res.err = ""
        /\ res.shape = <<TrailingDim(x1), NumPoints(x1), NumPoints(x2)>>
        /\ \A f \in 0..(TrailingDim(x1) - 1) :
              \A jk \in PointPairs :
                 (res.at[<<f, jk[1], jk[2]>>] = One)
                    <=> (x1.at[<<jk[1], f>>] = x2.at[<<jk[2], f>>])

(***************************************************************************)
(* C16: when evaluate raises in an iteration of train the exception leaves *)
(* train at once: no optimizer step is made in that iteration, no later    *)
(* statement or iteration runs, and the cell never gets to the prediction  *)
(* that follows train.                                                     *)
(***************************************************************************)
Failed(r) == r.err \notin {"", "none"}

C16_FailurePropagates ==
    [][/\ Failed(res') =>
             /\ tpc' = "failed"
             /\ steps' = it'
             /\ lengthscale' = lengthscale
       /\ tpc # "failed"]_vars

\* the notebook's own run: a kernel with one lengthscale over the two
\* dimensions of train_x raises IndexError in the first iteration
C16_Witness ==
    /\ tpc = "failed"
    /\ res.err = "IndexError"
    /\ cats = <<2, 2>>
    /\ NumLengthscales = 1
    /\ x1 = train_x
    /\ it = 0
    /\ steps = 0

(***************************************************************************)
(* C17: when no evaluation fails train returns after exactly training_iter *)
(* iterations, 2 under CI and 50 otherwise; in every iteration the         *)
(* statements run in the order zero_grad, model forward, loss, backward,   *)
(* optimizer step, the kernel is evaluated once, before the step, and the  *)
(* lengthscale changes once, in the step.  The loop counter grows with     *)
(* every iteration and never passes training_iter.                         *)
(***************************************************************************)
InLoop == {"zero_grad", "forward", "loss", "backward", "step"}

C17_Order ==
    [][/\ training_iter' = (IF smoke_test' THEN 2 ELSE 50)
       /\ tpc = "zero_grad" => tpc' = "forward"
       /\ tpc = "forward" => tpc' = "loss"
       /\ tpc = "loss" => tpc' \in {"backward", "failed"}
       /\ tpc = "backward" => tpc' = "step"
       /\ tpc = "step" => tpc' \in {"zero_grad", "trained"}
       /\ tpc' = "zero_grad" => (tpc \in {"train", "step"} /\ it' < training_iter')
       /\ (pc = "ready" /\ pc' = "returned") => (tpc = "loss" /\ steps = it)
       /\ tpc \in InLoop =>
             ((lengthscale' # lengthscale) <=> (tpc = "step"))
       /\ tpc = "step" => (steps' = steps + 1 /\ it' = it + 1 /\ steps = it)
       /\ tpc # "step" => (steps' = steps /\ it' = it)
       /\ tpc' \in InLoop => it' < training_iter'
       /\ tpc' = "trained" => (it' = training_iter' /\ steps' = training_iter')]_vars

\* train has returned after 50 iterations and 50 optimizer steps
C17_Witness ==
    /\ tpc = "trained"
    /\ ~smoke_test
    /\ it = 50
    /\ steps = 50
    /\ lengthscale.shape = <<1, 2>>
    /\ cats = <<2, 3>>

(***************************************************************************)
(* C18: with a single lengthscale entry and inputs of d >= 2 dimensions    *)
(* the full evaluation raises IndexError on reaching dimension i = 1,      *)
(* after the one factor of dimension 0, and returns no result; the single  *)
(* lengthscale is not reused for the other dimensions.                     *)
(***************************************************************************)
C18_SingleLengthscaleRaises ==
    (/\ Returned
     /\ ~diag
     /\ ~last_dim_is_batch
     /\ NumLengthscales = 1
     /\ TrailingDim(x1) >= 2) =>
        /\ res.err = "IndexError"
        /\ Len(cats) >= 1 => factors = 1

\* the notebook's own call: categories of two dimensions, no ard_num_dims,
\* train_x against itself
C18_Witness ==
    /\ Returned
    /\ ~diag
    /\ ~last_dim_is_batch
    /\ cats = <<2, 2>>
    /\ NumLengthscales = 1
    /\ x1 = train_x
    /\ x2 = train_x
    /\ res.err = "IndexError"
    /\ factors = 1

(***************************************************************************)
(* C19: evaluate does not check the entries of the points against cats: a  *)
(* point with an entry outside 0..cats[i]-1 is accepted, and the kernel    *)
(* value of a pair is the product of base_i over the dimensions on which   *)
(* the pair disagrees, so two pairs that disagree on the same dimensions   *)
(* have the same value whatever their entries are.                         *)
(***************************************************************************)
OutOfRange(x) == \E ix \in DOMAIN x.at : x.at[ix] >= cats[ix[2] + 1]

C19_EntriesUnchecked ==
    FullCall =>
        /\ res.err = ""
        /\ \A jk \in PointPairs : res.at[<<jk[1], jk[2]>>] = SpecKernel(jk[1], jk[2], 0)
        /\ \A jk \in PointPairs : \A lm \in PointPairs :
              Differing(jk[1], jk[2]) = Differing(lm[1], lm[2]) =>
                 res.at[<<jk[1], jk[2]>>] = res.at[<<lm[1], lm[2]>>]

\* two pairs with different entries, one of them outside the range of its
\* dimension, disagree and get the same value below 1
C19_Witness ==
    /\ FullCall
    /\ cats = <<2>>
    /\ OutOfRange(x1)
    /\ x1.shape = <<2, 1>>
    /\ x1.at[<<0, 0>>] = 0
    /\ x1.at[<<1, 0>>] = 2
    /\ x2.shape = <<1, 1>>
    /\ x2.at[<<0, 0>>] = 1
    /\ res.err = ""
    /\ res.at[<<0, 0>>] = res.at[<<1, 0>>]
    /\ RLess(res.at[<<0, 0>>], One)

====
